---- MODULE Spec2Model ----
(***************************************************************************)
(* A model of mr/core/fitting.py: NLS (per-column nonlinear least squares  *)
(* over a table) and fit_powerlaw (log-log linear regression per column).  *)
(*                                                                         *)
(* Numbers are exact: a number is <<n, d>> (the rational n/d, d > 0),      *)
(* <<1, 0>> / <<-1, 0>> (+inf / -inf) or <<>> (NaN, pandas' missing        *)
(* value).  Data values are drawn from {0, 1, 2}, so every natural log     *)
(* taken by the code is an integer multiple of ln 2 (or -inf); logs are    *)
(* carried in units of ln 2.                                               *)
(*                                                                         *)
(* A Series is a sequence of <<label, value>> pairs; the labels of every   *)
(* Series of a call are x-axis labels of the table, in increasing order.   *)
(***************************************************************************)
EXTENDS Integers, Sequences, FiniteSets, TLC

\* Bounds of the model.
MaxRows == 2
MaxCols == 2
MaxCells == 4

VARIABLES
    option,        \* pandas' process-wide option 'use_inf_as_null'
    pc,            \* position of the running call
    call,          \* the arguments of the running call
    optionBefore,  \* value of option when the running call started
    p,             \* local p of NLS
    values,        \* local values (a DataFrame)
    stderr,        \* local stderr (a DataFrame)
    residuals,     \* local residuals (dict: column label -> Series)
    fits,          \* local fits (dict: column label -> Series)
    col,           \* position of the for loop over the columns
    factoryCalls,  \* the arguments the parameter factory was called with
    solverCalls,   \* what lmfit.minimize / stats.linregress was handed, per invocation
    plotCalls,     \* number of invocations of plots.fit
    r,             \* local r of NLS (the Result)
    ret            \* the value the call returned, if it returned

vars == <<option, pc, call, optionBefore, p, values, stderr, residuals, fits,
          col, factoryCalls, solverCalls, plotCalls, r, ret>>

----------------------------------------------------------------------------
(* Exact numbers. *)

NaN == <<>>
PosInf == <<1, 0>>
NegInf == <<-1, 0>>

Abs(n) == IF n < 0 THEN -n ELSE n

RECURSIVE GCD(_, _)
GCD(a, b) == IF b = 0 THEN a ELSE GCD(b, a % b)

\* The rational n/d in lowest terms with a positive denominator (d # 0).
Rat(n, d) ==
    LET g == GCD(Abs(n), Abs(d))
        s == IF d < 0 THEN -1 ELSE 1
    IN  <<(s * n) \div g, (s * d) \div g>>

Num(n) == <<n, 1>>

IsNaN(v) == Len(v) = 0
IsInf(v) == Len(v) = 2 /\ v[2] = 0
IsFinite(v) == Len(v) = 2 /\ v[2] # 0
Neg(v) == IF IsNaN(v) THEN NaN ELSE <<-v[1], v[2]>>

\* IEEE addition.
NumAdd(a, b) ==
    IF IsNaN(a) \/ IsNaN(b) THEN NaN
    ELSE IF IsInf(a) /\ IsInf(b) THEN (IF a = b THEN a ELSE NaN)
    ELSE IF IsInf(a) THEN a
    ELSE IF IsInf(b) THEN b
    ELSE Rat(a[1] * b[2] + b[1] * a[2], a[2] * b[2])

NumSub(a, b) == NumAdd(a, Neg(b))

Sign(n) == IF n > 0 THEN 1 ELSE IF n < 0 THEN -1 ELSE 0

\* IEEE multiplication.
NumMul(a, b) ==
    IF IsNaN(a) \/ IsNaN(b) THEN NaN
    ELSE IF IsInf(a) \/ IsInf(b)
         THEN (IF a[1] = 0 \/ b[1] = 0 THEN NaN ELSE <<Sign(a[1]) * Sign(b[1]), 0>>)
    ELSE Rat(a[1] * b[1], a[2] * b[2])

\* numpy float division: x/0 is nan or +-inf (a warning, not an exception).
NumDiv(a, b) ==
    IF IsNaN(a) \/ IsNaN(b) THEN NaN
    ELSE IF IsInf(a) /\ IsInf(b) THEN NaN
    ELSE IF IsInf(b) THEN Num(0)
    ELSE IF b[1] = 0 THEN (IF IsInf(a) THEN a
                           ELSE IF a[1] = 0 THEN NaN ELSE <<Sign(a[1]), 0>>)
    ELSE IF IsInf(a) THEN <<Sign(a[1]) * Sign(b[1]), 0>>
    ELSE Rat(a[1] * b[2], a[2] * b[1])

\* np.log, in units of ln 2: defined on the values the model produces
\* (0, 1, 2, 4); log(0) = -inf and the log of a negative number is nan.
NpLog(v) ==
    IF IsNaN(v) THEN NaN
    ELSE IF v = PosInf THEN PosInf
    ELSE IF v = NegInf \/ v[1] < 0 THEN NaN
    ELSE CASE v = Num(0) -> NegInf
           [] v = Num(1) -> Num(0)
           [] v = Num(2) -> Num(1)
           [] v = Num(4) -> Num(2)

----------------------------------------------------------------------------
(* Series. *)

\* pandas.isnull under the option use_inf_as_null.
IsNull(v, useInf) == IsNaN(v) \/ (useInf /\ IsInf(v))

Labels(s) == [i \in DOMAIN s |-> s[i][1]]
Vals(s) == [i \in DOMAIN s |-> s[i][2]]
LabelSet(s) == {s[i][1] : i \in DOMAIN s}
HasLabel(s, l) == l \in LabelSet(s)
At(s, l) == LET i == CHOOSE j \in DOMAIN s : s[j][1] = l IN s[i][2]

RECURSIVE SortedSeq(_)
SortedSeq(S) ==
    IF S = {} THEN <<>>
    ELSE LET m == CHOOSE a \in S : \A b \in S : a <= b
         IN  <<m>> \o SortedSeq(S \ {m})

RECURSIVE SeqSum(_)
SeqSum(s) == IF s = <<>> THEN Num(0) ELSE NumAdd(Head(s), SeqSum(Tail(s)))

\* np.log(s)
SLog(s) == [i \in DOMAIN s |-> <<s[i][1], NpLog(s[i][2])>>]

\* The labels of a binary operation of two Series: pandas aligns the
\* operands on the union of their labels.
AlignedLabels(a, b) == SortedSeq(LabelSet(a) \cup LabelSet(b))

\* a - b : a label one operand lacks gives NaN.
SSub(a, b) ==
    LET ls == AlignedLabels(a, b)
    IN  [i \in DOMAIN ls |->
            <<ls[i], IF HasLabel(a, ls[i]) /\ HasLabel(b, ls[i])
                     THEN NumSub(At(a, ls[i]), At(b, ls[i]))
                     ELSE NaN>>]

\* a.mul(b)
SMul(a, b) ==
    LET ls == AlignedLabels(a, b)
    IN  [i \in DOMAIN ls |->
            <<ls[i], IF HasLabel(a, ls[i]) /\ HasLabel(b, ls[i])
                     THEN NumMul(At(a, ls[i]), At(b, ls[i]))
                     ELSE NaN>>]

NotNull(s, useInf) == SelectSeq(s, LAMBDA e : ~IsNull(e[2], useInf))

\* Mutant of DropNa: the column is handed on with its missing entries.
DropNaOmitted(s, useInf) == s

\* Series.dropna()
DropNa(s, useInf) == NotNull(s, useInf)

\* Series.mean(): the mean of the non-null entries, NaN when there is none.
SMean(s, useInf) ==
    LET kept == Vals(NotNull(s, useInf))
    IN  IF kept = <<>> THEN NaN ELSE NumDiv(SeqSum(kept), Num(Len(kept)))

\* Series.fillna(m)
FillNa(s, m, useInf) ==
    [i \in DOMAIN s |-> <<s[i][1], IF IsNull(s[i][2], useInf) THEN m ELSE s[i][2]>>]

----------------------------------------------------------------------------
(* Parameter sets (lmfit.Parameters): an ordered mapping, here a sequence  *)
(* of <<name, value, stderr>>.                                             *)

Keys(ps) == [i \in DOMAIN ps |-> ps[i][1]]
HasKey(ps, name) == \E i \in DOMAIN ps : ps[i][1] = name
Param(ps, name) == ps[CHOOSE i \in DOMAIN ps : ps[i][1] = name]

\* Series(result.params).apply(lambda param: param.value) and ... param.stderr
ParamValues(ps) == [i \in DOMAIN ps |-> <<ps[i][1], ps[i][2]>>]
ParamStderrs(ps) == [i \in DOMAIN ps |-> <<ps[i][1], ps[i][3]>>]

----------------------------------------------------------------------------
(* DataFrames: index (row labels), columns (column labels) and, per column, *)
(* the values in index order.                                               *)

\* DataFrame(index=idx)
DataFrameOfIndex(idx) == [index |-> idx, columns |-> <<>>, data |-> <<>>]

\* The values of Series s in the order of idx (a label s lacks gives NaN).
Reindex(s, idx) ==
    [i \in DOMAIN idx |-> IF HasLabel(s, idx[i]) THEN At(s, idx[i]) ELSE NaN]

\* df[c] = s : the Series is aligned on df's index; a new label is appended
\* to the columns.
SetItem(df, c, s) ==
    IF \E j \in DOMAIN df.columns : df.columns[j] = c
    THEN [df EXCEPT !.data[CHOOSE j \in DOMAIN df.columns : df.columns[j] = c] =
                        Reindex(s, df.index)]
    ELSE [df EXCEPT !.columns = Append(@, c),
                    !.data = Append(@, Reindex(s, df.index))]

\* Mutant of Transpose: the table is returned as it was built.
TransposeOmitted(df) == df

\* df.T
Transpose(df) ==
    [index |-> df.columns,
     columns |-> df.index,
     data |-> [i \in DOMAIN df.index |-> [j \in DOMAIN df.columns |-> df.data[j][i]]]]

\* pd.concat(d, axis=1) of a dict of Series (here a sequence of
\* <<key, Series>>): one column per key over the union of the labels.
Concat(d) ==
    LET idx == SortedSeq(UNION {LabelSet(d[j][2]) : j \in DOMAIN d})
    IN  [index |-> idx,
         columns |-> [j \in DOMAIN d |-> d[j][1]],
         data |-> [j \in DOMAIN d |-> Reindex(d[j][2], idx)]]

----------------------------------------------------------------------------
(* The inputs of a call. *)

XVals == {0, 1, 2}
NLSCellVals == {NaN, Num(1), Num(2)}
PLCellVals == {NaN, Num(0), Num(1), Num(2)}
AllCols == <<"c1", "c2", "c3">>
ParamNames == <<"A", "n">>

\* data.index: n consecutive x values.
XAxes(n) == {s \in [1..n -> XVals] : \A i \in 1..(n - 1) : s[i] + 1 = s[i + 1]}

\* ys: per column, the values of the rows (NaN: a missing entry).
\* (at most MaxCells cells).
Tables(ncols, nrows, cells) ==
    IF ncols * nrows > MaxCells THEN {} ELSE [1..ncols -> [1..nrows -> cells]]

\* params: a Parameters object, or a function of a column returning one.
ParamSpecs ==
    {[callable |-> c, names |-> SubSeq(ParamNames, 1, k)] :
        c \in BOOLEAN, k \in {0, Len(ParamNames)}}

\* weights: None, or a sequence (row i weighs i + 1) of any length.
WeightChoices ==
    {[given |-> FALSE, w |-> <<>>]}
        \cup {[given |-> TRUE, w |-> [i \in 1..n |-> i + 1]] : n \in 1..MaxRows}

\* plot: left to its default, or passed.
PlotArgs == {"unspecified", "true", "false"}

\* Mutant of PlotDefault: plotting is off unless asked for.
PlotDefaultOff == FALSE

\* def NLS(..., plot=True) / def fit_powerlaw(data, plot=True)
PlotDefault == TRUE
PlotValue(arg) == IF arg = "unspecified" THEN PlotDefault ELSE arg = "true"

\* ys[col] : the column as a Series over the x axis.
ColSeries(c, j) == [i \in DOMAIN c.x |-> <<c.x[i], c.ys[j][i]>>]

\* x = Series(data.index.values, index=data.index, dtype=np.float64)
XSeries(c) == [i \in DOMAIN c.x |-> <<c.x[i], Num(c.x[i])>>]

\* weights = Series(np.asarray(weights), index=x.index)
WeightSeries(c) == [i \in DOMAIN c.x |-> <<c.x[i], Num(c.weights.w[i])>>]

\* Series(v, index=x): the vector v labelled, by position, with the values of x.
SeriesOf(v, x) == [i \in DOMAIN v |-> <<x[i][2][1], v[i]>>]

----------------------------------------------------------------------------
(* The caller's functions. *)

RECURSIVE Pow(_, _)
Pow(x, k) == IF k = 0 THEN Num(1) ELSE NumMul(x, Pow(x, k - 1))

\* model_func(x, params): the power law A * x^n (a parameter the set lacks
\* is taken as 1).
ModelFunc(x, params) ==
    LET A == IF HasKey(params, "A") THEN Param(params, "A")[2] ELSE Num(1)
        n == IF HasKey(params, "n") THEN Param(params, "n")[2][1] ELSE 1
    IN  NumMul(A, Pow(x, n))

\* s.apply(lambda x: model_func(x, params))
SModel(s, params) == [i \in DOMAIN s |-> <<s[i][1], ModelFunc(s[i][2], params)>>]

\* A Parameters object given as such: every parameter starts at 1.
StaticParams(names) == [i \in DOMAIN names |-> <<names[i], Num(1), NaN>>]

\* params(data) of a callable spec: the initial guess is derived from the
\* column it is given, here 2 when the column holds a missing entry, else 1.
Factory(names, data) ==
    LET guess == IF \E i \in DOMAIN data : IsNaN(data[i][2]) THEN Num(2) ELSE Num(1)
    IN  [i \in DOMAIN names |-> <<names[i], IF names[i] = "A" THEN guess ELSE Num(1), NaN>>]

----------------------------------------------------------------------------
(* NLS. *)

\* Mutant of ResidualSeries: the weights are never multiplied in.
ResidualSeriesUnweighted(c, params, x, y, useInf) ==
    LET f == SModel(x, params)
        e == IF c.log_residual
             THEN SSub(SLog(y), SLog(f))
             ELSE SSub(y, f)
    IN  FillNa(e, SMean(e, useInf), useInf)

\* residual_func(params, x, y, weights), before .values: the residual as a
\* Series.  c carries the closure's log_residual and the weights Series.
ResidualSeries(c, params, x, y, useInf) ==
    LET f == SModel(x, params)
        e == IF c.log_residual
             THEN SSub(SLog(y), SLog(f))
             ELSE SSub(y, f)
        filled == FillNa(e, SMean(e, useInf), useInf)
    IN  IF ~c.weights.given THEN filled ELSE SMul(filled, WeightSeries(c))

residual_func(c, params, x, y, useInf) == Vals(ResidualSeries(c, params, x, y, useInf))

\* The values the solver may move a parameter to.
SolverVals(name) == IF name = "A" THEN {Num(1), Num(2)} ELSE {Num(0), Num(1)}

\* The parameter sets the solver searches: every parameter of ps at one of
\* its values, with a standard error only when the fit converged.
Fitted(ps, ok) ==
    {[i \in DOMAIN ps |-> <<ps[i][1], v[i], IF ok THEN Num(1) ELSE NaN>>] :
        v \in {w \in [DOMAIN ps -> {Num(0), Num(1), Num(2)}] :
                  \A i \in DOMAIN ps : w[i] \in SolverVals(ps[i][1])}}

SumSq(v) == SeqSum([i \in DOMAIN v |-> NumMul(v[i], v[i])])

NumLess(a, b) == IsFinite(a) /\ IsFinite(b) /\ a[1] * b[2] < b[1] * a[2]

\* lmfit.minimize(residual_func, ps, args=(x, y, weights)) when it returns:
\* the parameters at a least-squares point of the values searched, the
\* residual there, and whether the fit converged (ok).
Minimize(c, ps, x, y, useInf, ok) ==
    LET ss == [q \in Fitted(ps, ok) |-> SumSq(residual_func(c, q, x, y, useInf))]
        best == CHOOSE q \in DOMAIN ss : \A h \in DOMAIN ss : ~NumLess(ss[h], ss[q])
    IN  [params |-> best,
         residual |-> residual_func(c, best, x, y, useInf),
         success |-> ok]

\* What one invocation of the solver (lmfit.minimize, stats.linregress) was
\* handed and how it ended: the column it is for, the parameters and where
\* they come from, the two data arguments, the residual Series the objective
\* yields for them, and "converged", "not converged" or "raised".
SolverCall(label, ps, src, x, y, resid, outcome) ==
    [col |-> label, params |-> ps, src |-> src, x |-> x, y |-> y,
     residual |-> resid, outcome |-> outcome]

NoResult == <<>>
EmptyFrame == DataFrameOfIndex(<<>>)

Fresh(c) ==
    /\ call' = c
    /\ optionBefore' = option
    /\ p' = <<>>
    /\ stderr' = EmptyFrame
    /\ residuals' = <<>>
    /\ fits' = <<>>
    /\ r' = NoResult
    /\ factoryCalls' = <<>>
    /\ solverCalls' = <<>>
    /\ plotCalls' = 0
    /\ ret' = NoResult

NLSArgs(x, ys, ps, w, lg, inv, pl) ==
    [fn |-> "NLS", x |-> x, cols |-> SubSeq(AllCols, 1, Len(ys)), ys |-> ys,
     params |-> ps, weights |-> w, log_residual |-> lg, inverted_model |-> inv,
     plot |-> pl]

\* Lines 60-61, 92, 107-112: the option is set, the table and the x axis are
\* taken and the weights are checked.
NLSCall ==
    /\ pc = "idle"
    /\ \E n \in 1..MaxRows, k \in 0..MaxCols :
       \E x \in XAxes(n), ys \in Tables(k, n, NLSCellVals), ps \in ParamSpecs,
          w \in WeightChoices, lg \in BOOLEAN, inv \in BOOLEAN, pl \in PlotArgs :
        /\ Fresh(NLSArgs(x, ys, ps, w, lg, inv, pl))
        /\ values' = EmptyFrame
        /\ col' = 0
        /\ option' = TRUE
        /\ pc' = IF w.given /\ Len(w.w) # Len(x) THEN "raised" ELSE "sample"

\* Lines 113-120: the sample parameters that index the result tables.
NLSSample ==
    /\ pc = "sample"
    /\ UNCHANGED <<option, call, optionBefore, plotCalls, ret, r, solverCalls,
                   residuals, fits>>
    /\ IF call.params.callable /\ Len(call.cols) = 0
       THEN \* ys.icol(0) of a table without columns
            /\ pc' = "raised"
            /\ UNCHANGED <<p, values, stderr, col, factoryCalls>>
       ELSE IF call.params.callable
       THEN /\ factoryCalls' = Append(factoryCalls, ColSeries(call, 1))
            /\ \/ /\ p' = Factory(call.params.names, ColSeries(call, 1))
                  /\ values' = DataFrameOfIndex(Keys(p'))
                  /\ stderr' = DataFrameOfIndex(Keys(p'))
                  /\ col' = 1
                  /\ pc' = "loop"
               \/ \* the factory raises
                  /\ pc' = "raised"
                  /\ UNCHANGED <<p, values, stderr, col>>
       ELSE /\ p' = StaticParams(call.params.names)
            /\ values' = DataFrameOfIndex(Keys(p'))
            /\ stderr' = DataFrameOfIndex(Keys(p'))
            /\ col' = 1
            /\ pc' = "loop"
            /\ UNCHANGED factoryCalls

\* Lines 121-139: one pass of the loop over the columns.
NLSFitColumn ==
    /\ pc = "loop"
    /\ col <= Len(call.cols)
    /\ UNCHANGED <<option, call, optionBefore, plotCalls, ret, r>>
    /\ \E y \in {DropNa(ColSeries(call, col), option)} :
       \E ps \in {IF call.params.callable THEN Factory(call.params.names, y) ELSE p} :
       LET label == call.cols[col]
           x == XSeries(call)
           src == IF call.params.callable
                  THEN <<"factory", Len(factoryCalls) + 1>> ELSE <<"params">>
           a1 == IF ~call.inverted_model THEN x ELSE y
           a2 == IF ~call.inverted_model THEN y ELSE x
       IN  /\ factoryCalls' = IF call.params.callable
                              THEN Append(factoryCalls, y) ELSE factoryCalls
           /\ \/ \* the factory raises
                 /\ call.params.callable
                 /\ pc' = "raised"
                 /\ UNCHANGED <<p, values, stderr, residuals, fits, col, solverCalls>>
              \/ \* the solver raises
                 /\ solverCalls' = Append(solverCalls,
                        SolverCall(label, ps, src, a1, a2,
                                   ResidualSeries(call, ps, a1, a2, option), "raised"))
                 /\ pc' = "raised"
                 /\ UNCHANGED <<p, values, stderr, residuals, fits, col>>
              \/ \* the solver returns, converged or not
                 \E ok \in BOOLEAN :
                 \E result \in {Minimize(call, ps, a1, a2, option, ok)} :
                 /\ solverCalls' = Append(solverCalls,
                        SolverCall(label, ps, src, a1, a2,
                                   ResidualSeries(call, ps, a1, a2, option),
                                   IF result.success THEN "converged" ELSE "not converged"))
                 /\ p' = result.params
                 /\ values' = SetItem(values, label, ParamValues(result.params))
                 /\ stderr' = SetItem(stderr, label, ParamStderrs(result.params))
                 /\ residuals' =
                        Append(residuals, <<label, SeriesOf(result.residual, x)>>)
                 /\ fits' = Append(fits,
                        <<label, SModel(a1, result.params)>>)
                 /\ col' = col + 1
                 /\ pc' = "loop"

\* The Result object NLS builds.
Result(vs, se, res, fs, ps) ==
    [values |-> vs, stderr |-> se, residuals |-> res, fits |-> fs, model |-> ps]

\* pd.reset_option('use_inf_as_null'): back to the option's default.
OptionDefault == FALSE

\* Lines 140-146: the option is reset and the Result is assembled.
NLSAggregate ==
    /\ pc = "loop"
    /\ col > Len(call.cols)
    /\ option' = OptionDefault
    /\ UNCHANGED <<call, optionBefore, p, values, stderr, residuals, fits, col,
                   factoryCalls, solverCalls, plotCalls, ret>>
    /\ IF residuals = <<>>
       THEN \* pd.concat of no objects raises
            /\ pc' = "raised"
            /\ r' = r
       ELSE /\ r' = <<Result(Transpose(values), Transpose(stderr),
                             Concat(residuals), Concat(fits), p)>>
            /\ pc' = "plot"

\* Lines 147-150 with plot true: plots.fit is invoked, then r is returned.
NLSPlot ==
    /\ pc = "plot"
    /\ PlotValue(call.plot)
    /\ plotCalls' = plotCalls + 1
    /\ UNCHANGED <<option, call, optionBefore, p, values, stderr, residuals, fits,
                   col, factoryCalls, solverCalls, r>>
    /\ \/ /\ pc' = "returned"
          /\ ret' = r
       \/ \* import plots or plots.fit raises
          /\ pc' = "raised"
          /\ ret' = ret

\* Lines 147, 150 with plot false: r is returned.
NLSReturn ==
    /\ pc = "plot"
    /\ ~PlotValue(call.plot)
    /\ pc' = "returned"
    /\ ret' = r
    /\ UNCHANGED <<option, call, optionBefore, p, values, stderr, residuals, fits,
                   col, factoryCalls, solverCalls, plotCalls, r>>

----------------------------------------------------------------------------
(* fit_powerlaw. *)

\* np.exp of a log carried in units of ln 2: exp(q ln 2) = 2^q, written
\* <<n, d, 2>> for q = n/d.
NpExp(q) ==
    IF IsNaN(q) THEN NaN
    ELSE IF q = PosInf THEN PosInf
    ELSE IF q = NegInf THEN Num(0)
    ELSE <<q[1], q[2], 2>>

SeqMean(v) == NumDiv(SeqSum(v), Num(Len(v)))

\* stats.linregress(lx, ly) on vectors of one length: slope = ssxym / ssxm
\* and intercept = ymean - slope * xmean, from the biased covariance.
LinRegress(lx, ly) ==
    LET n == Len(lx)
        xmean == SeqMean(lx)
        ymean == SeqMean(ly)
        dx == [i \in 1..n |-> NumSub(lx[i], xmean)]
        dy == [i \in 1..n |-> NumSub(ly[i], ymean)]
        ssxm == NumDiv(SeqSum([i \in 1..n |-> NumMul(dx[i], dx[i])]), Num(n))
        ssxym == NumDiv(SeqSum([i \in 1..n |-> NumMul(dx[i], dy[i])]), Num(n))
        slope == NumDiv(ssxym, ssxm)
    IN  [slope |-> slope, intercept |-> NumSub(ymean, NumMul(slope, xmean))]

\* np.exp(intercept) * x**slope
PowerLaw(intercept, slope, x) ==
    IF IsNaN(intercept) \/ IsNaN(slope) \/ IsNaN(x) THEN NaN
    ELSE IF x = Num(0)
         THEN (IF ~IsFinite(intercept) \/ ~IsFinite(slope) THEN NaN
               ELSE IF slope[1] > 0 THEN Num(0)
               ELSE IF slope[1] = 0 THEN NpExp(intercept)
               ELSE PosInf)
    ELSE NpExp(NumAdd(intercept, NumMul(slope, NpLog(x))))

\* x.apply(lambda x: np.exp(intercept)*x**slope)
SPowerLaw(s, intercept, slope) ==
    [i \in DOMAIN s |-> <<s[i][1], PowerLaw(intercept, slope, s[i][2])>>]

\* df[c] = [v1, v2, ...]: a list is taken by position.
SetItemList(df, c, vs) ==
    [df EXCEPT !.columns = Append(@, c), !.data = Append(@, vs)]

PLArgs(x, ys, pl) ==
    [fn |-> "fit_powerlaw", x |-> x, cols |-> SubSeq(AllCols, 1, Len(ys)), ys |-> ys,
     params |-> [callable |-> FALSE, names |-> <<>>],
     weights |-> [given |-> FALSE, w |-> <<>>],
     log_residual |-> FALSE, inverted_model |-> FALSE, plot |-> pl]

\* Lines 152-157.
PLCall ==
    /\ pc = "idle"
    /\ \E n \in 1..MaxRows, k \in 0..MaxCols :
       \E x \in XAxes(n), ys \in Tables(k, n, PLCellVals), pl \in PlotArgs :
        /\ Fresh(PLArgs(x, ys, pl))
        /\ values' = DataFrameOfIndex(<<"n", "A">>)
        /\ col' = 1
        /\ option' = option
        /\ pc' = "pl_loop"

\* Lines 158-164: one pass of the loop over the columns.
PLFitColumn ==
    /\ pc = "pl_loop"
    /\ col <= Len(call.cols)
    /\ UNCHANGED <<option, call, optionBefore, p, stderr, residuals, factoryCalls,
                   plotCalls, r, ret>>
    /\ \E y \in {DropNa(ColSeries(call, col), option)} :
       LET label == call.cols[col]
           x == XSeries(call)
           lx == SLog(x)
           ly == SLog(y)
       IN  IF Len(lx) # Len(ly)
           THEN \* linregress raises on vectors of different lengths
                /\ solverCalls' = Append(solverCalls,
                       SolverCall(label, <<>>, <<"linregress">>, lx, ly, <<>>, "raised"))
                /\ pc' = "raised"
                /\ UNCHANGED <<values, fits, col>>
           ELSE \E reg \in {LinRegress(Vals(lx), Vals(ly))} :
                /\ solverCalls' = Append(solverCalls,
                       SolverCall(label, <<>>, <<"linregress">>, lx, ly, <<>>, "returned"))
                /\ values' = SetItemList(values, label,
                                         <<reg.slope, NpExp(reg.intercept)>>)
                /\ fits' = Append(fits,
                       <<label, SPowerLaw(x, reg.intercept, reg.slope)>>)
                /\ col' = col + 1
                /\ pc' = "pl_loop"

\* Lines 165-166: the tables are assembled.
PLAggregate ==
    /\ pc = "pl_loop"
    /\ col > Len(call.cols)
    /\ UNCHANGED <<option, call, optionBefore, p, values, stderr, residuals, fits, col,
                   factoryCalls, solverCalls, plotCalls, ret>>
    /\ IF fits = <<>>
       THEN \* pd.concat of no objects raises
            /\ pc' = "raised"
            /\ r' = r
       ELSE /\ r' = <<[values |-> Transpose(values), fits |-> Concat(fits)]>>
            /\ pc' = "pl_plot"

\* Lines 167-170 with plot true: plots.fit is invoked, then values is returned.
PLPlot ==
    /\ pc = "pl_plot"
    /\ PlotValue(call.plot)
    /\ plotCalls' = plotCalls + 1
    /\ UNCHANGED <<option, call, optionBefore, p, values, stderr, residuals, fits,
                   col, factoryCalls, solverCalls, r>>
    /\ \/ /\ pc' = "returned"
          /\ ret' = <<r[1].values>>
       \/ \* import plots or plots.fit raises
          /\ pc' = "raised"
          /\ ret' = ret

\* Lines 167, 170 with plot false: values is returned.
PLReturn ==
    /\ pc = "pl_plot"
    /\ ~PlotValue(call.plot)
    /\ pc' = "returned"
    /\ ret' = <<r[1].values>>
    /\ UNCHANGED <<option, call, optionBefore, p, values, stderr, residuals, fits,
                   col, factoryCalls, solverCalls, plotCalls, r>>

----------------------------------------------------------------------------
(* The program: one call of NLS or of fit_powerlaw. *)

NoCall ==
    [fn |-> "none", x |-> <<>>, cols |-> <<>>, ys |-> <<>>,
     params |-> [callable |-> FALSE, names |-> <<>>],
     weights |-> [given |-> FALSE, w |-> <<>>],
     log_residual |-> FALSE, inverted_model |-> FALSE, plot |-> "unspecified"]

Init ==
    /\ option = OptionDefault
    /\ pc = "idle"
    /\ call = NoCall
    /\ optionBefore = OptionDefault
    /\ p = <<>>
    /\ values = EmptyFrame
    /\ stderr = EmptyFrame
    /\ residuals = <<>>
    /\ fits = <<>>
    /\ col = 0
    /\ r = NoResult
    /\ factoryCalls = <<>>
    /\ solverCalls = <<>>
    /\ plotCalls = 0
    /\ ret = NoResult

Next ==
    \/ NLSCall
    \/ NLSSample
    \/ NLSFitColumn
    \/ NLSAggregate
    \/ NLSPlot
    \/ NLSReturn
    \/ PLCall
    \/ PLFitColumn
    \/ PLAggregate
    \/ PLPlot
    \/ PLReturn

Spec == Init /\ [][Next]_vars

----------------------------------------------------------------------------
(* Properties. *)

IsNLS == call.fn = "NLS"
IsPL == call.fn = "fit_powerlaw"

\* The x labels of the rows where column j has no value.
MissingAt(j) == {call.x[i] : i \in {k \in DOMAIN call.x : IsNaN(call.ys[j][k])}}
PresentAt(j) == {call.x[i] : i \in {k \in DOMAIN call.x : ~IsNaN(call.ys[j][k])}}

\* Column j with its missing rows left out.
Cleaned(j) ==
    LET rows == SortedSeq({k \in DOMAIN call.x : ~IsNaN(call.ys[j][k])})
    IN  [i \in DOMAIN rows |-> <<call.x[rows[i]], call.ys[j][rows[i]]>>]

\* A table has the shape its labels announce.
WellShaped(df) ==
    /\ Len(df.data) = Len(df.columns)
    /\ \A j \in DOMAIN df.data : Len(df.data[j]) = Len(df.index)

InvalidInput ==
    \/ call.params.names = <<>>
    \/ call.cols = <<>>
    \/ \E j \in DOMAIN call.ys : PresentAt(j) = {}

\* C2 (as claimed, on a table and parameters that are not degenerate): a row where column c has no value has no entry in the
\* residual Series the objective yields for c, nor in the residual Series and
\* the fitted curve stored for c.
C2_MissingRowExcluded ==
    (IsNLS /\ ~InvalidInput) =>
        /\ \A s \in DOMAIN solverCalls :
              LabelSet(solverCalls[s].residual) \cap MissingAt(s) = {}
        /\ \A j \in DOMAIN residuals : LabelSet(residuals[j][2]) \cap MissingAt(j) = {}
        /\ \A j \in DOMAIN fits : LabelSet(fits[j][2]) \cap MissingAt(j) = {}

\* The columns whose fit failed: the solver raised or did not converge.
FailedColumns ==
    {solverCalls[s].col : s \in {t \in DOMAIN solverCalls :
                                    solverCalls[t].outcome # "converged"}}

\* C3 (as claimed, on a table and parameters that are not degenerate): a
\* result NLS returns after the solver failed for some columns names exactly
\* those columns.
C3_FailuresSurfaced ==
    (IsNLS /\ ~InvalidInput /\ pc = "returned" /\ FailedColumns # {}) =>
        /\ "failed" \in DOMAIN ret[1]
        /\ ret[1].failed = FailedColumns

\* C4 (as claimed): on such input NLS never invokes the solver and never
\* returns.
C4_InvalidInputRejected ==
    (IsNLS /\ InvalidInput) => (solverCalls = <<>> /\ pc # "returned")

WeightsMismatch == call.weights.given /\ Len(call.weights.w) # Len(call.x)

\* The weight of the row labelled l.
WeightOf(l) == Num(call.weights.w[CHOOSE i \in DOMAIN call.x : call.x[i] = l])

\* The residual Series of arguments (x, y) at parameters ps without weights.
Unweighted(ps, x, y) ==
    ResidualSeries([call EXCEPT !.weights = [given |-> FALSE, w |-> <<>>]], ps, x, y, TRUE)

\* s is t with every entry multiplied by the weight of its row.
WeightedBy(s, t) ==
    /\ Labels(s) = Labels(t)
    /\ \A i \in DOMAIN s : s[i][2] = NumMul(t[i][2], WeightOf(t[i][1]))

\* C5: with weights of another length than the table has rows, NLS raises
\* before the factory and the solver are called; with weights of that
\* length the weights check does not raise, and every entry of the residual
\* (the one the objective yields, and the one stored from the solver's
\* result) is the unweighted entry times the weight of the same row.
C5_Weights ==
    IsNLS =>
        /\ WeightsMismatch =>
              (pc = "raised" /\ factoryCalls = <<>> /\ solverCalls = <<>>)
        /\ (~WeightsMismatch /\ pc = "raised" /\ col = 0) =>
              (call.params.callable /\ (factoryCalls # <<>> \/ call.cols = <<>>))
        /\ (call.weights.given /\ ~WeightsMismatch) =>
              /\ \A s \in DOMAIN solverCalls :
                    WeightedBy(solverCalls[s].residual,
                               Unweighted(solverCalls[s].params,
                                          solverCalls[s].x, solverCalls[s].y))
              /\ (pc = "loop" /\ col > 1) =>
                    WeightedBy(residuals[col - 1][2],
                               Unweighted(p, solverCalls[col - 1].x,
                                          solverCalls[col - 1].y))

\* C5 witness: a weighted fit of a two-row column whose second residual
\* entry is a nonzero number (times the weight 3 of the second row).
C5_Witness ==
    /\ IsNLS /\ call.weights.given /\ Len(call.x) = 2
    /\ pc = "loop" /\ col > 1
    /\ IsFinite(residuals[1][2][2][2]) /\ residuals[1][2][2][2][1] # 0
    /\ IsFinite(residuals[1][2][1][2]) /\ residuals[1][2][1][2][1] # 0

\* C6 (as claimed): plots.fit is invoked only on a call that passes plot=True,
\* and a failing plotting step never keeps the result from the caller.
C6_PlotOnlyOnRequest ==
    /\ plotCalls > 0 => call.plot = "true"
    /\ plotCalls > 0 => pc # "raised"

\* C6 (amended): plots.fit is invoked, once and after the result is
\* assembled, exactly when plot is passed true or left unspecified (its
\* default is True); a call whose plotting step raises returns nothing.
C6_PlotUnlessDisabled ==
    /\ plotCalls > 0 => (call.plot \in {"true", "unspecified"} /\ r # NoResult)
    /\ pc = "returned" => (plotCalls = (IF call.plot = "false" THEN 0 ELSE 1))
    /\ pc = "raised" => ret = NoResult

\* C6 witness: a call that left plot unspecified returned after plots.fit
\* was invoked.
C6_Witness == pc = "returned" /\ call.plot = "unspecified" /\ plotCalls = 1

IsFiniteNumber(v) == Len(v) \in {2, 3} /\ v[2] # 0

\* C7 (as claimed, for tables of two rows or more, where the regression is
\* determined): fit_powerlaw never returns for a table with a
\* non-positive x or a non-positive non-missing y, and a table it returns
\* holds no NaN and no infinity.
C7_DomainError ==
    (IsPL /\ pc = "returned" /\ Len(call.x) > 1) =>
        /\ \A i \in DOMAIN call.x : call.x[i] > 0
        /\ \A j \in DOMAIN call.ys : \A i \in DOMAIN call.x :
              IsNaN(call.ys[j][i]) \/ call.ys[j][i][1] > 0
        /\ \A i \in DOMAIN ret[1].data : \A j \in DOMAIN ret[1].data[i] :
              IsFiniteNumber(ret[1].data[i][j])

\* C8 (as claimed, for columns that hold a value): for every column the regression is given exactly the
\* (log x, log y) pairs of the rows where the column has a value, the fitted
\* curve has exactly those rows, and a column with missing entries does not
\* keep the call from returning its table.
C8_RegressionPairs ==
    (IsPL /\ \A j \in DOMAIN call.ys : PresentAt(j) # {}) =>
        /\ \A s \in DOMAIN solverCalls :
              /\ LabelSet(solverCalls[s].x) = PresentAt(s)
              /\ LabelSet(solverCalls[s].y) = PresentAt(s)
              /\ solverCalls[s].outcome # "raised"
        /\ \A j \in DOMAIN fits : LabelSet(fits[j][2]) = PresentAt(j)

\* C9 (as claimed): the factory is invoked with cleaned column data only,
\* once per column in column order, and the solver gets what it returned.
C9_FactoryPerCleanedColumn ==
    (IsNLS /\ call.params.callable) =>
        /\ Len(factoryCalls) <= Len(call.cols)
        /\ \A i \in DOMAIN factoryCalls : factoryCalls[i] = Cleaned(i)
        /\ \A s \in DOMAIN solverCalls :
              solverCalls[s].params = Factory(call.params.names, Cleaned(s))

\* C9 (amended): the factory is invoked first with the first column as
\* given, missing entries included (the sample parameters that index the
\* result tables), then once per column, in column order, with the column's
\* data without its missing entries; the solver is handed, for each column,
\* what that second kind of call returned.  A Parameters object given as
\* such is the one object handed to the solver for every column.
C9_FactorySampleThenPerColumn ==
    IsNLS =>
        /\ call.params.callable =>
              /\ Len(factoryCalls) <= Len(call.cols) + 1
              /\ pc \in {"loop", "plot", "returned"} => Len(factoryCalls) = col
              /\ \A i \in DOMAIN factoryCalls :
                    factoryCalls[i] = IF i = 1 THEN ColSeries(call, 1) ELSE Cleaned(i - 1)
              /\ \A s \in DOMAIN solverCalls :
                    /\ solverCalls[s].col = call.cols[s]
                    /\ solverCalls[s].src = <<"factory", s + 1>>
                    /\ solverCalls[s].params =
                          Factory(call.params.names, factoryCalls[s + 1])
        /\ ~call.params.callable =>
              /\ factoryCalls = <<>>
              /\ \A s \in DOMAIN solverCalls :
                    /\ solverCalls[s].col = call.cols[s]
                    /\ solverCalls[s].src = <<"params">>
                    /\ Keys(solverCalls[s].params) = call.params.names

\* C9 witness: two columns were fitted with a factory, the second of them
\* holding a missing entry.
C9_Witness ==
    /\ IsNLS /\ call.params.callable
    /\ Len(solverCalls) = 2 /\ Len(factoryCalls) = 3
    /\ MissingAt(2) # {} /\ PresentAt(2) # {}

\* C10 (as claimed): when a call of NLS has ended, by a return or by an
\* error, the option has the value it had before the call.
C10_OptionRestored ==
    (IsNLS /\ pc \in {"returned", "raised"}) => option = optionBefore

====
